---------------------------- MODULE Spec2Model ----------------------------
(***************************************************************************)
(* Model of examples/test-websocket.py: a scripted WebSocket test client.  *)
(*                                                                         *)
(* The script is translated statement by statement: the import block, the  *)
(* four handlers and the main block.  The open handler is a sequence of    *)
(* steps (print, send, print, sleep, ..., sleep, close) because the        *)
(* server and the clock act between them.  The websocket-client library    *)
(* and the server are the script's environment: the library's run loop     *)
(* dispatches the four handlers one at a time on the thread that called    *)
(* run_forever, as the specification's sections 5 and 7 describe it.       *)
(*                                                                         *)
(* Time is counted in ticks of half a time unit, so that sleep(0.5) is one *)
(* tick and sleep(1) is two.  The clock only matters while the open        *)
(* handler sleeps; a sleep lasts at least its argument and may overshoot.  *)
(***************************************************************************)
EXTENDS Integers, Sequences, FiniteSets, TLC

VARIABLES
    pc,           \* position of the main thread in the script
    lib,          \* state of the library's run loop
    opc,          \* position inside on_open
    idx,          \* index of the message the for loop of on_open is at
    out,          \* lines printed to standard output, in order
    sendLog,      \* every call of ws.send: message, calling handler, outcome
    inbox,        \* frames received from the server and not yet dispatched
    conn,         \* the transport: "none", "open", "peer_closed", "broken"
    elapsed,      \* ticks since the latest successful ws.send
    sleepLeft,    \* ticks the current sleep still has to last (negative: overslept)
    closeAfter,   \* value of elapsed when ws.close() was called, or NoTime
    echo,         \* per message: "none", or how its echo arrived: "fast", "slow"
    pushes,       \* unsolicited server messages so far
    trace,        \* handlers invoked by the library, in order
    libAvailable, \* environment: can `import websocket` succeed
    listener,     \* environment: is a server listening on the port
    installs,     \* runs of the pip install step
    attempts,     \* connection attempts (calls of run_forever)
    loaded        \* has `import websocket` succeeded

vars == <<pc, lib, opc, idx, out, sendLog, inbox, conn, elapsed, sleepLeft, closeAfter, echo, pushes, trace, libAvailable, listener, installs, attempts,
          loaded>>

(* ------------------------------ constants ------------------------------ *)

\* The fixed message list of on_open.
messages ==
    << "Hello from Python client!",
       "This is a test message",
       "WebSocket is working!" >>

\* time.sleep(0.5) between sends, in ticks.
InterSendDelay == 1

\* time.sleep(1) before ws.close(), in ticks.
FinalDelay == 2

\* How many ticks a sleep may overshoot its argument.
MaxOversleep == 1

\* How many unsolicited messages the server may push.
MaxPush == 1

NoTime == 0 - 1

PushText == "server notice"

(* ------------------------------- output -------------------------------- *)

Line(kind, text) == [kind |-> kind, text |-> text]

Count(kind, s) == Cardinality({i \in 1..Len(s) : s[i].kind = kind})

\* Positions of the lines equal to l.
Positions(l, s) == {i \in 1..Len(s) : s[i] = l}

\* The texts of the lines of one kind, in order.
RECURSIVE TextsOf(_, _)
TextsOf(kind, s) ==
    IF s = <<>> THEN <<>>
    ELSE IF Head(s).kind = kind
         THEN <<Head(s).text>> \o TextsOf(kind, Tail(s))
         ELSE TextsOf(kind, Tail(s))

IsPrefix(s, t) == Len(s) <= Len(t) /\ \A i \in 1..Len(s) : s[i] = t[i]

\* The messages that went out on the wire, in order.
RECURSIVE Wire(_)
Wire(log) ==
    IF log = <<>> THEN <<>>
    ELSE IF Head(log).ok
         THEN <<Head(log).msg>> \o Wire(Tail(log))
         ELSE Wire(Tail(log))

CountTrace(name) == Cardinality({i \in 1..Len(trace) : trace[i] = name})

(* ------------------------------- Init ---------------------------------- *)

Init ==
    /\ pc = "import"
    /\ lib = "absent"
    /\ opc = "idle"
    /\ idx = 1
    /\ out = <<>>
    /\ sendLog = <<>>
    /\ inbox = <<>>
    /\ conn = "none"
    /\ elapsed = 0
    /\ sleepLeft = 0
    /\ closeAfter = NoTime
    /\ echo = [i \in 1..Len(messages) |-> "none"]
    /\ pushes = 0
    /\ trace = <<>>
    /\ libAvailable \in BOOLEAN
    /\ listener \in BOOLEAN
    /\ installs = 0
    /\ attempts = 0
    /\ loaded = FALSE


(* ------------------------------ ws.send -------------------------------- *)

\* What a call of ws.send can do on the current transport: it succeeds on an
\* open connection, raises on a broken one, and may do either once the peer
\* has closed its side.
SendOutcomes ==
    IF conn = "open" THEN {TRUE}
    ELSE IF conn = "peer_closed" THEN BOOLEAN
    ELSE {FALSE}

Sent(msg, ctx, ok) == [msg |-> msg, ctx |-> ctx, ok |-> ok]

(* ------------------------------ handlers ------------------------------- *)

\* A handler that answers what it receives.
on_message_echo(message) ==
    /\ out' = Append(out, Line("received", message))
    /\ sendLog' = Append(sendLog, Sent(message, "on_message", conn = "open"))

\* on_message(ws, message): prints, sends nothing.
on_message(message) ==
    /\ out' = Append(out, Line("received", message))
    /\ UNCHANGED sendLog

\* A handler that reports nothing.
on_error_silent ==
    /\ UNCHANGED <<out, sendLog>>

\* A handler that sends the current message again.
on_error_retry ==
    /\ out' = Append(out, Line("error", ""))
    /\ sendLog' = Append(sendLog, Sent(messages[idx], "on_error", conn = "open"))

\* on_error(ws, error): prints, sends nothing, starts nothing.
on_error ==
    /\ out' = Append(out, Line("error", ""))
    /\ UNCHANGED sendLog

\* A handler that prints its notice twice.
on_close_twice ==
    /\ out' = out \o <<Line("closed", ""), Line("closed", "")>>
    /\ UNCHANGED sendLog

\* on_close(ws, close_status_code, close_msg): prints.
on_close ==
    /\ out' = Append(out, Line("closed", ""))
    /\ UNCHANGED sendLog

(* --------------------------- the main thread --------------------------- *)

\* An import block that installs whether or not the import succeeded.
Import_always_installs ==
    /\ pc = "import"
    /\ pc' = "print_installing"
    /\ loaded' = libAvailable
    /\ UNCHANGED <<lib, opc, idx, out, sendLog, inbox, conn, elapsed, sleepLeft,
                   closeAfter, echo, pushes, trace, libAvailable, listener, installs,
                   attempts>>

\* try: import websocket
Import ==
    /\ pc = "import"
    /\ IF libAvailable
       THEN pc' = "print_connecting" /\ loaded' = TRUE
       ELSE pc' = "print_installing" /\ loaded' = FALSE
    /\ UNCHANGED <<lib, opc, idx, out, sendLog, inbox, conn, elapsed, sleepLeft, closeAfter,
                   echo, pushes, trace, libAvailable, listener, installs, attempts>>

\* except ImportError: print("Installing websocket-client...")
PrintInstalling ==
    /\ pc = "print_installing"
    /\ out' = Append(out, Line("installing", ""))
    /\ pc' = "install"
    /\ UNCHANGED <<lib, opc, idx, sendLog, inbox, conn, elapsed, sleepLeft, closeAfter,
                   echo, pushes, trace, libAvailable, listener, installs, attempts,
                   loaded>>

\* subprocess.check_call([... "pip", "install", "websocket-client"]): returns when
\* pip exits with 0 and raises CalledProcessError otherwise, which nothing catches.
\* After a successful install the module is normally importable.
Install ==
    /\ pc = "install"
    /\ installs' = installs + 1
    /\ \E succeeded \in BOOLEAN :
         IF succeeded
         THEN /\ pc' = "reimport"
              /\ libAvailable' \in BOOLEAN
         ELSE /\ pc' = "crashed"
              /\ UNCHANGED libAvailable
    /\ UNCHANGED <<lib, opc, idx, out, sendLog, inbox, conn, elapsed, sleepLeft, closeAfter,
                   echo, pushes, trace, listener, attempts, loaded>>

\* the second `import websocket`, inside the except block: an ImportError here is
\* not caught.
Reimport ==
    /\ pc = "reimport"
    /\ IF libAvailable
       THEN pc' = "print_connecting" /\ loaded' = TRUE
       ELSE pc' = "crashed" /\ loaded' = FALSE
    /\ UNCHANGED <<lib, opc, idx, out, sendLog, inbox, conn, elapsed, sleepLeft, closeAfter,
                   echo, pushes, trace, libAvailable, listener, installs, attempts>>

\* A main block that announces nothing.
PrintConnecting_skipped ==
    /\ pc = "print_connecting"
    /\ pc' = "create_app"
    /\ UNCHANGED <<lib, opc, idx, out, sendLog, inbox, conn, elapsed, sleepLeft,
                   closeAfter, echo, pushes, trace, libAvailable, listener, installs,
                   attempts, loaded>>

\* server_url = ...; print(f"Connecting to {server_url}...")
PrintConnecting ==
    /\ pc = "print_connecting"
    /\ out' = Append(out, Line("connecting", ""))
    /\ pc' = "create_app"
    /\ UNCHANGED <<lib, opc, idx, sendLog, inbox, conn, elapsed, sleepLeft, closeAfter,
                   echo, pushes, trace, libAvailable, listener, installs, attempts,
                   loaded>>

\* ws = websocket.WebSocketApp(server_url, on_open=..., ...): needs the module.
CreateApp ==
    /\ pc = "create_app"
    /\ loaded
    /\ lib' = "created"
    /\ pc' = "run_forever"
    /\ UNCHANGED <<opc, idx, out, sendLog, inbox, conn, elapsed, sleepLeft, closeAfter,
                   echo, pushes, trace, libAvailable, listener, installs, attempts,
                   loaded>>

\* ws.run_forever(): the one connection attempt; the main thread is inside the
\* call from here on.
RunForever ==
    /\ pc = "run_forever"
    /\ lib = "created"
    /\ lib' = "connecting"
    /\ attempts' = attempts + 1
    /\ pc' = "in_run_forever"
    /\ UNCHANGED <<opc, idx, out, sendLog, inbox, conn, elapsed, sleepLeft, closeAfter,
                   echo, pushes, trace, libAvailable, listener, installs, loaded>>

\* run_forever returns once the connection's lifecycle is over; the script ends.
RunForeverReturns ==
    /\ pc = "in_run_forever"
    /\ lib = "closed"
    /\ pc' = "done"
    /\ UNCHANGED <<lib, opc, idx, out, sendLog, inbox, conn, elapsed, sleepLeft, closeAfter,
                   echo, pushes, trace, libAvailable, listener, installs, attempts,
                   loaded>>

(* ------------------------------- on_open ------------------------------- *)
(* on_open runs on the thread that is inside run_forever.  Each statement   *)
(* is one step; lib = "in_open" for as long as the handler is running.      *)

\* print("Connected to server"); messages = [...]; the for loop starts.
OpenPrintConnected ==
    /\ opc = "print_connected"
    /\ out' = Append(out, Line("connected", ""))
    /\ idx' = 1
    /\ opc' = "send"
    /\ UNCHANGED <<pc, lib, sendLog, inbox, conn, elapsed, sleepLeft, closeAfter, echo,
                   pushes, trace, libAvailable, listener, installs, attempts, loaded>>

\* A loop that walks the list from its end.
OpenSend_reversed ==
    /\ opc = "send"
    /\ \E ok \in SendOutcomes :
         /\ sendLog' = Append(sendLog,
                              Sent(messages[Len(messages) + 1 - idx], "on_open", ok))
         /\ elapsed' = IF ok THEN 0 ELSE elapsed
         /\ opc' = IF ok THEN "print_sent" ELSE "raised"
    /\ UNCHANGED <<pc, lib, idx, out, inbox, conn, sleepLeft, closeAfter, echo,
                   pushes, trace, libAvailable, listener, installs, attempts, loaded>>

\* ws.send(msg): on failure the exception leaves the loop and the handler.
OpenSend ==
    /\ opc = "send"
    /\ \E ok \in SendOutcomes :
         /\ sendLog' = Append(sendLog, Sent(messages[idx], "on_open", ok))
         /\ elapsed' = IF ok THEN 0 ELSE elapsed
         /\ opc' = IF ok THEN "print_sent" ELSE "raised"
    /\ UNCHANGED <<pc, lib, idx, out, inbox, conn, sleepLeft, closeAfter, echo,
                   pushes, trace, libAvailable, listener, installs, attempts, loaded>>

\* print(f"Sent: {msg}")
OpenPrintSent ==
    /\ opc = "print_sent"
    /\ out' = Append(out, Line("sent", messages[idx]))
    /\ opc' = "sleep_call"
    /\ UNCHANGED <<pc, lib, idx, sendLog, inbox, conn, elapsed, sleepLeft, closeAfter, echo,
                   pushes, trace, libAvailable, listener, installs, attempts, loaded>>

\* time.sleep(0.5): the thread blocks.
OpenSleep ==
    /\ opc = "sleep_call"
    /\ sleepLeft' = InterSendDelay
    /\ opc' = "sleeping"
    /\ UNCHANGED <<pc, lib, idx, out, sendLog, inbox, conn, elapsed, closeAfter, echo,
                   pushes, trace, libAvailable, listener, installs, attempts, loaded>>

\* time.sleep(0.5) returns; the for loop takes the next message or ends.
OpenWake ==
    /\ opc = "sleeping"
    /\ sleepLeft <= 0
    /\ IF idx < Len(messages)
       THEN idx' = idx + 1 /\ opc' = "send"
       ELSE idx' = idx /\ opc' = "final_sleep_call"
    /\ sleepLeft' = 0
    /\ UNCHANGED <<pc, lib, out, sendLog, inbox, conn, elapsed, closeAfter, echo,
                   pushes, trace, libAvailable, listener, installs, attempts, loaded>>

\* A handler that closes without the final pause.
OpenFinalSleep_skipped ==
    /\ opc = "final_sleep_call"
    /\ sleepLeft' = 0
    /\ opc' = "final_sleeping"
    /\ UNCHANGED <<pc, lib, idx, out, sendLog, inbox, conn, elapsed, closeAfter, echo,
                   pushes, trace, libAvailable, listener, installs, attempts, loaded>>

\* time.sleep(1): the thread blocks.
OpenFinalSleep ==
    /\ opc = "final_sleep_call"
    /\ sleepLeft' = FinalDelay
    /\ opc' = "final_sleeping"
    /\ UNCHANGED <<pc, lib, idx, out, sendLog, inbox, conn, elapsed, closeAfter, echo,
                   pushes, trace, libAvailable, listener, installs, attempts, loaded>>

\* time.sleep(1) returns.
OpenFinalWake ==
    /\ opc = "final_sleeping"
    /\ sleepLeft <= 0
    /\ opc' = "close_call"
    /\ sleepLeft' = 0
    /\ UNCHANGED <<pc, lib, idx, out, sendLog, inbox, conn, elapsed, closeAfter,
                   echo, pushes, trace, libAvailable, listener, installs, attempts,
                   loaded>>

\* A handler that returns without closing.
OpenClose_missing ==
    /\ opc = "close_call"
    /\ opc' = "returned"
    /\ UNCHANGED <<pc, lib, idx, out, sendLog, inbox, conn, elapsed, sleepLeft,
                   closeAfter, echo, pushes, trace, libAvailable, listener, installs,
                   attempts, loaded>>

\* ws.close(): the local close; frames still unread are dropped with the
\* socket; the handler returns.
OpenClose ==
    /\ opc = "close_call"
    /\ closeAfter' = elapsed
    /\ conn' = IF conn = "broken" THEN "broken" ELSE "closed_local"
    /\ inbox' = <<>>
    /\ opc' = "returned"
    /\ UNCHANGED <<pc, lib, idx, out, sendLog, elapsed, sleepLeft, echo, pushes,
                   trace, libAvailable, listener, installs, attempts, loaded>>

\* The clock, while the handler sleeps.
Tick ==
    /\ opc \in {"sleeping", "final_sleeping"}
    /\ sleepLeft > 0 - MaxOversleep
    /\ sleepLeft' = sleepLeft - 1
    /\ elapsed' = elapsed + 1
    /\ UNCHANGED <<pc, lib, opc, idx, out, sendLog, inbox, conn, closeAfter,
                   echo, pushes, trace, libAvailable, listener, installs, attempts,
                   loaded>>

(* --------------------------- the run loop ------------------------------ *)
(* run_forever of the library: it connects, invokes on_open, then reads      *)
(* frames and invokes on_message; an error invokes on_error and then the     *)
(* connection is torn down, which invokes on_close once.  All of it runs on  *)
(* the calling thread, so nothing is dispatched while a handler is running.  *)

\* The connection cannot be established: no listener, or the handshake fails.
LibConnectFails ==
    /\ lib = "connecting"
    /\ lib' = "failed"
    /\ UNCHANGED <<pc, opc, idx, out, sendLog, inbox, conn, elapsed, sleepLeft, closeAfter,
                   echo, pushes, trace, libAvailable, listener, installs, attempts,
                   loaded>>

\* The connection opens: on_open is invoked.
LibConnectOpens ==
    /\ lib = "connecting"
    /\ listener
    /\ conn' = "open"
    /\ lib' = "in_open"
    /\ opc' = "print_connected"
    /\ trace' = Append(trace, "on_open")
    /\ UNCHANGED <<pc, idx, out, sendLog, inbox, elapsed, sleepLeft, closeAfter, echo,
                   pushes, libAvailable, listener, installs, attempts, loaded>>

\* on_open raised (a send failed): the error is reported through on_error and
\* the loop goes on to read the socket.
LibOpenRaised ==
    /\ lib = "in_open"
    /\ opc = "raised"
    /\ on_error
    /\ trace' = Append(trace, "on_error")
    /\ opc' = "idle"
    /\ lib' = "reading"
    /\ UNCHANGED <<pc, idx, inbox, conn, elapsed, sleepLeft, closeAfter, echo, pushes,
                   libAvailable, listener, installs, attempts, loaded>>

\* Has the application asked for the loop to stop (ws.close() was called).
CloseRequested == closeAfter # NoTime

\* on_open returned.  After ws.close() the loop stops: a transport that broke
\* during the session is reported as an error, otherwise the connection is
\* torn down.  Without ws.close() the loop would go on to read the socket.
LibOpenReturned ==
    /\ lib = "in_open"
    /\ opc = "returned"
    /\ opc' = "idle"
    /\ lib' = IF ~CloseRequested THEN "reading"
              ELSE IF conn = "broken" THEN "failed"
              ELSE "teardown"
    /\ UNCHANGED <<pc, idx, out, sendLog, inbox, conn, elapsed, sleepLeft, closeAfter, echo,
                   pushes, trace, libAvailable, listener, installs, attempts, loaded>>

\* A data frame is read: on_message is invoked with its text.
LibDispatchMessage ==
    /\ lib = "reading"
    /\ inbox # <<>>
    /\ on_message(Head(inbox))
    /\ inbox' = Tail(inbox)
    /\ trace' = Append(trace, "on_message")
    /\ UNCHANGED <<pc, lib, opc, idx, conn, elapsed, sleepLeft, closeAfter, echo, pushes,
                   libAvailable, listener, installs, attempts, loaded>>

\* The peer's close is read: teardown.
LibReadClose ==
    /\ lib = "reading"
    /\ inbox = <<>>
    /\ conn = "peer_closed"
    /\ lib' = "teardown"
    /\ UNCHANGED <<pc, opc, idx, out, sendLog, inbox, conn, elapsed, sleepLeft, closeAfter,
                   echo, pushes, trace, libAvailable, listener, installs, attempts,
                   loaded>>

\* Reading fails on a broken transport.
LibReadFails ==
    /\ lib = "reading"
    /\ conn = "broken"
    /\ lib' = "failed"
    /\ UNCHANGED <<pc, opc, idx, out, sendLog, inbox, conn, elapsed, sleepLeft, closeAfter,
                   echo, pushes, trace, libAvailable, listener, installs, attempts,
                   loaded>>

\* An error is reported: on_error is invoked, then the connection is torn down.
LibDispatchError ==
    /\ lib = "failed"
    /\ on_error
    /\ trace' = Append(trace, "on_error")
    /\ lib' = "teardown"
    /\ UNCHANGED <<pc, opc, idx, inbox, conn, elapsed, sleepLeft, closeAfter, echo, pushes,
                   libAvailable, listener, installs, attempts, loaded>>

\* Teardown: on_close is invoked, once, and the loop is over.
LibDispatchClose ==
    /\ lib = "teardown"
    /\ on_close
    /\ trace' = Append(trace, "on_close")
    /\ lib' = "closed"
    /\ conn' = "none"
    /\ inbox' = <<>>
    /\ UNCHANGED <<pc, opc, idx, elapsed, sleepLeft, closeAfter, echo, pushes,
                   libAvailable, listener, installs, attempts, loaded>>

(* ------------------------------ the server ----------------------------- *)

\* The server echoes a message it was sent.  The echo is fast when it reaches
\* the client less than the inter-send delay after the message was sent, which
\* only the echo of the latest message can be.
ServerEcho ==
    /\ conn = "open"
    /\ \E i \in 1..Len(messages) :
         /\ i <= Len(sendLog)
         /\ sendLog[i].ok
         /\ echo[i] = "none"
         /\ inbox' = Append(inbox, sendLog[i].msg)
         /\ echo' = [echo EXCEPT ![i] =
                        IF i = Len(sendLog) /\ elapsed < InterSendDelay
                        THEN "fast" ELSE "slow"]
    /\ UNCHANGED <<pc, lib, opc, idx, out, sendLog, conn, elapsed, sleepLeft, closeAfter,
                   pushes, trace, libAvailable, listener, installs, attempts, loaded>>

\* The server sends a message of its own.
ServerPush ==
    /\ conn = "open"
    /\ pushes < MaxPush
    /\ pushes' = pushes + 1
    /\ inbox' = Append(inbox, PushText)
    /\ UNCHANGED <<pc, lib, opc, idx, out, sendLog, conn, elapsed, sleepLeft, closeAfter,
                   echo, trace, libAvailable, listener, installs, attempts, loaded>>

\* The server closes the connection.
RemoteClose ==
    /\ conn = "open"
    /\ conn' = "peer_closed"
    /\ UNCHANGED <<pc, lib, opc, idx, out, sendLog, inbox, elapsed, sleepLeft, closeAfter,
                   echo, pushes, trace, libAvailable, listener, installs, attempts,
                   loaded>>

\* The transport breaks: peer reset, network drop.
PeerReset ==
    /\ conn = "open"
    /\ conn' = "broken"
    /\ UNCHANGED <<pc, lib, opc, idx, out, sendLog, inbox, elapsed, sleepLeft, closeAfter,
                   echo, pushes, trace, libAvailable, listener, installs, attempts,
                   loaded>>

(* --------------------------- specifications ---------------------------- *)

Script ==
    \/ Import
    \/ PrintInstalling
    \/ Install
    \/ Reimport
    \/ PrintConnecting
    \/ CreateApp
    \/ RunForever
    \/ RunForeverReturns
    \/ OpenPrintConnected
    \/ OpenSend
    \/ OpenPrintSent
    \/ OpenSleep
    \/ OpenWake
    \/ OpenFinalSleep
    \/ OpenFinalWake
    \/ OpenClose

Library ==
    \/ LibConnectFails
    \/ LibConnectOpens
    \/ LibOpenRaised
    \/ LibOpenReturned
    \/ LibDispatchMessage
    \/ LibReadClose
    \/ LibReadFails
    \/ LibDispatchError
    \/ LibDispatchClose

Server ==
    \/ ServerEcho
    \/ ServerPush
    \/ RemoteClose
    \/ PeerReset

Next == Script \/ Library \/ Server \/ Tick

Spec == Init /\ [][Next]_vars

\* The thread runs whenever it can, and the clock advances while it sleeps.
\* Nothing is assumed of the server.
FairSpec ==
    /\ Spec
    /\ WF_vars(Script)
    /\ WF_vars(Library)
    /\ WF_vars(Tick)

Terminated == pc \in {"done", "crashed"}

(* ------------------------------ properties ----------------------------- *)

SentLines == TextsOf("sent", out)

\* Does line a occur in s before line b does.
Before(a, b, s) ==
    \E p \in Positions(a, s) : \A q \in Positions(b, s) : p < q

Printed(l) == Positions(l, out) # {}

\* The output from the connect-attempt line on.
RECURSIVE FromConnect(_)
FromConnect(s) ==
    IF s = <<>> THEN <<>>
    ELSE IF Head(s).kind = "connecting" THEN s
    ELSE FromConnect(Tail(s))

Kinds(s) == [i \in 1..Len(s) |-> s[i].kind]

AllSendsOk == \A k \in 1..Len(sendLog) : sendLog[k].ok

\* C1: the open handler sends the three messages once each in the listed order,
\* and the confirmation of message i is printed before the send of message i+1
\* begins: every call of ws.send is for the next message of the list, the
\* confirmations printed are the list's first messages, a send begins only when
\* every earlier message is confirmed, and a handler that ran to its close
\* with no failed send has sent and confirmed exactly the list.
C1_SendsInOrder ==
    /\ Len(sendLog) <= Len(messages)
    /\ \A k \in 1..Len(sendLog) : sendLog[k].msg = messages[k]
    /\ IsPrefix(Wire(sendLog), messages)
    /\ IsPrefix(SentLines, messages)
    /\ Len(SentLines) <= Len(Wire(sendLog))
    /\ Len(Wire(sendLog)) <= Len(SentLines) + 1
    /\ opc = "send" => Len(SentLines) = Len(sendLog) /\ idx = Len(sendLog) + 1
    /\ (CloseRequested /\ AllSendsOk) =>
           Wire(sendLog) = messages /\ SentLines = messages

C1_Witness ==
    /\ pc = "done"
    /\ CloseRequested
    /\ Wire(sendLog) = messages
    /\ SentLines = messages

\* C2: when the server echoes message i faster than the inter-send delay, the
\* received line of message i is printed after the confirmation of message i
\* and before the confirmation of message i+1.
C2_EchoBetweenSends ==
    \A i \in 1..(Len(messages) - 1) :
        (echo[i] = "fast" /\ Printed(Line("sent", messages[i + 1]))) =>
            /\ Before(Line("sent", messages[i]), Line("received", messages[i]), out)
            /\ Before(Line("received", messages[i]), Line("sent", messages[i + 1]), out)

\* C3: with no listener the output from the connect-attempt line on is that
\* line, an error line and a closed line, in that order and complete when the
\* script ends; on_open is never invoked, nothing is sent and no connected or
\* sent line is printed.
C3_NoListener ==
    ~listener =>
        /\ IsPrefix(Kinds(FromConnect(out)), <<"connecting", "error", "closed">>)
        /\ pc = "done" => Kinds(FromConnect(out)) = <<"connecting", "error", "closed">>
        /\ pc \in {"in_run_forever", "done"} => Printed(Line("connecting", ""))
        /\ CountTrace("on_open") = 0
        /\ sendLog = <<>>
        /\ opc = "idle"

C3_Witness ==
    /\ ~listener
    /\ pc = "done"
    /\ trace = <<"on_error", "on_close">>

\* C4: on_close is invoked at most once and prints one closed line per
\* invocation; once the run loop is over it has been invoked exactly once,
\* whether the connection was closed by ws.close(), by the peer or by both.
C4_OneClose ==
    /\ CountTrace("on_close") <= 1
    /\ Count("closed", out) = CountTrace("on_close")
    /\ lib = "closed" => CountTrace("on_close") = 1
    /\ lib # "closed" => CountTrace("on_close") = 0

C4_Witness ==
    /\ pc = "done"
    /\ CountTrace("on_open") = 1
    /\ CloseRequested
    /\ Count("closed", out) = 1

\* C5: ws.close() is called only after all three messages were sent and
\* confirmed, and at least one time unit after the last send.
C5_CloseAfterDelay ==
    CloseRequested =>
        /\ closeAfter >= FinalDelay
        /\ Wire(sendLog) = messages
        /\ SentLines = messages

C5_Witness ==
    /\ CloseRequested
    /\ closeAfter = InterSendDelay + FinalDelay

Last(s) == s[Len(s)]

\* C6: every invocation of on_error prints an error line and is followed by
\* the invocation of on_close, after which the run loop returns; a connection
\* that cannot be established and a transport that breaks in mid-session are
\* both reported through on_error.
C6_ErrorThenClose ==
    /\ [](Count("error", out) = CountTrace("on_error"))
    /\ [](lib = "closed" => Last(trace) = "on_close")
    /\ [](CountTrace("on_error") > 0 => <>(pc = "done" /\ Last(trace) = "on_close"))
    /\ [](conn = "broken" => <>(CountTrace("on_error") > 0))
    /\ [](lib = "failed" => <>(CountTrace("on_error") > 0))

C6_Witness ==
    /\ pc = "done"
    /\ CountTrace("on_open") = 1
    /\ CountTrace("on_error") > 0
    /\ Before(Line("error", ""), Line("closed", ""), out)

\* C7: at most one connection attempt is made, and once on_error has been
\* invoked there is no further attempt, no further on_open and no further send.
C7_NoRetry ==
    /\ [](attempts <= 1 /\ CountTrace("on_open") <= attempts)
    /\ [][CountTrace("on_error") > 0 =>
            /\ attempts' = attempts
            /\ sendLog' = sendLog
            /\ pc' # "run_forever"
            /\ lib' # "connecting"]_vars

C7_Witness ==
    /\ pc = "done"
    /\ CountTrace("on_error") > 0
    /\ Len(sendLog) > 0
    /\ ~AllSendsOk

\* C8: the main thread stays inside run_forever for as long as the connection's
\* lifecycle lasts, and every run ends: run_forever returns, or the import
\* block fails before it is reached.
C8_Terminates ==
    /\ [](lib \in {"connecting", "in_open", "reading", "failed", "teardown"}
             => pc = "in_run_forever")
    /\ [](pc = "done" => lib = "closed" /\ opc = "idle")
    /\ [](pc = "done" /\ CountTrace("on_open") = 1 =>
             \/ CloseRequested /\ Wire(sendLog) = messages
             \/ ~AllSendsOk /\ CountTrace("on_error") > 0)
    /\ <>Terminated

C8_Witness ==
    /\ pc = "done"
    /\ CloseRequested
    /\ AllSendsOk

\* C9 as stated: whenever the library is missing at startup the script installs
\* it, loads it and goes on to the connection.
C9_AlwaysRecovers ==
    (Terminated /\ installs > 0) => (loaded /\ attempts = 1)

\* C9, amended: the install step runs at most once and only after the first
\* import failed; a connection is attempted only once the library is loaded;
\* when the install and the second import succeed the script goes on to its
\* one connection attempt, and when either fails it ends without one.
C9_InstallThenConnect ==
    /\ installs <= 1
    /\ pc \in {"print_installing", "install"} => ~loaded
    /\ installs = 1 => Printed(Line("installing", ""))
    /\ attempts > 0 => loaded
    /\ lib # "absent" => loaded
    /\ (loaded /\ pc \notin {"print_connecting", "create_app", "run_forever"})
           => attempts = 1
    /\ pc = "crashed" => installs = 1 /\ attempts = 0 /\ ~loaded

C9_Witness ==
    /\ installs = 1
    /\ loaded
    /\ attempts = 1
    /\ pc = "done"

\* C10: on_message sends nothing: every call of ws.send is made by on_open,
\* there are at most three of them however many messages are received, and
\* none is made after ws.close().
C10_OnlyOpenSends ==
    /\ [](Len(sendLog) <= Len(messages))
    /\ [](\A k \in 1..Len(sendLog) : sendLog[k].ctx = "on_open")
    /\ [][sendLog' # sendLog =>
            /\ lib = "in_open"
            /\ opc = "send"
            /\ ~CloseRequested]_vars
    /\ [][CountTrace("on_message")' # CountTrace("on_message") =>
            sendLog' = sendLog]_vars

C10_Witness ==
    /\ CountTrace("on_message") >= 2
    /\ pc = "done"

=============================================================================
